---- MODULE Spec2Model ----
(***************************************************************************)
(* Math word-problem application: the Problem Generator route              *)
(* (POST /api/math-problem), the Submission Evaluator route                *)
(* (POST /api/math-submission) and the relational store they share.        *)
(*                                                                         *)
(* Numbers are counted in ticks of 0.00005, so the tolerance 0.0001 of the *)
(* Evaluator is Tolerance = 2 ticks.  A text is a sequence of tokens; the  *)
(* token " " is white space.  A JavaScript value is a record [t, v]: t is  *)
(* its typeof ("undefined", "string", "number"), v the number, or the      *)
(* index of the string (index 0 is the empty string).                      *)
(***************************************************************************)
EXTENDS Integers, Sequences, FiniteSets, TLC

\* ---- bounds of the model ------------------------------------------------
MaxNum == 3          \* answers range over 0..MaxNum ticks
MaxRows == 2         \* ids the store hands out (ProblemSession rows)
MaxSubmissions == 1  \* Submission rows the store keeps

\* ---- program constants --------------------------------------------------
Tolerance == 2       \* 0.0001, in ticks of 0.00005

\* ---- JavaScript values --------------------------------------------------
Undefined == [t |-> "undefined", v |-> 0]
Str(i) == [t |-> "string", v |-> i]
Num(n) == [t |-> "number", v |-> n]
Numbers == 0..MaxNum

\* an absent difficulty (undefined in a body, NULL in a column)
NoDifficulty == "undefined"

Falsy(x) == \/ x.t = "undefined"
            \/ x.t = "string" /\ x.v = 0
            \/ x.t = "number" /\ x.v = 0

Abs(x) == IF x < 0 THEN -x ELSE x

\* ---- texts ---------------------------------------------------------------
IsSpace(tok) == tok = " "

RECURSIVE TrimStart(_)
TrimStart(s) == IF s = <<>> THEN <<>>
                ELSE IF IsSpace(Head(s)) THEN TrimStart(Tail(s)) ELSE s

RECURSIVE TrimEnd(_)
TrimEnd(s) == IF s = <<>> THEN <<>>
              ELSE IF IsSpace(s[Len(s)]) THEN TrimEnd(SubSeq(s, 1, Len(s) - 1))
              ELSE s

\* String.prototype.trim
Trim(s) == TrimEnd(TrimStart(s))

\* the literal returned by generateDetailedSolution when the call fails
ErrorSteps == <<"Error generating steps.">>

\* the texts the generation service may answer with
ServiceTexts == { <<" ", "w", " ">>, <<" ">> }

\* an outcome of ai.models.generateContent: the call throws, the response
\* carries no text (response.text is undefined), or it carries a text
NoText == <<>>
ContentOutcomes ==
    { [kind |-> "throw", text |-> NoText], [kind |-> "notext", text |-> NoText] }
    \cup { [kind |-> "text", text |-> t] : t \in ServiceTexts }

\* ---- the store -----------------------------------------------------------
\* a ProblemSession row: [id, problem_text, correct_answer, difficulty]
\* a Submission row: [session_id, user_answer, is_correct, feedback_text,
\*                    detailed_solution]
VARIABLES math_problem_sessions,    \* table read by the Evaluator
          problems,                 \* table written by the older Generator
          math_problem_submissions, \* table written by the Evaluator
          nextId,                   \* the next id the store generates
          evaluator,                \* the Evaluator invocation
          generator,                \* the Generator invocation
          client                    \* the page in the browser

vars == <<math_problem_sessions, problems, math_problem_submissions, nextId,
          evaluator, generator, client>>

NoRow == [id |-> 0, problem_text |-> 0, correct_answer |-> 0,
          difficulty |-> NoDifficulty]

\* the lookup without its id filter: the first row of the table
SelectFirst(table, id) ==
    IF Len(table) > 0 THEN table[1] ELSE NoRow

\* supabase.from(table).select(...).eq("id", id).single(): the one row with
\* that id, or NoRow (an error) when there is none
SelectSingle(table, id) ==
    IF id.t = "string" /\ \E i \in 1..Len(table) : table[i].id = id.v
    THEN table[CHOOSE i \in 1..Len(table) : table[i].id = id.v]
    ELSE NoRow

\* ---- Submission Evaluator: POST /api/math-submission --------------------
\* request bodies: text that is not JSON, the JSON value null, another JSON
\* value without the fields (a number, an array), or a JSON object
SessionIdValues == {Undefined, Str(0)} \cup { Str(i) : i \in 1..(MaxRows + 1) }
UserAnswerValues == {Undefined, Str(1)} \cup { Num(n) : n \in Numbers }

SubmissionBodies ==
    { [kind |-> k, sessionId |-> Undefined, userAnswer |-> Undefined] :
        k \in {"invalid", "null", "scalar"} }
    \cup { [kind |-> "object", sessionId |-> s, userAnswer |-> a] :
             s \in SessionIdValues, a \in UserAnswerValues }

NoResponse == [status |-> 0, error |-> FALSE, isCorrect |-> FALSE,
               feedback |-> NoText, correctAnswer |-> 0,
               detailedSolution |-> NoText]

ErrorResponse(code) == [NoResponse EXCEPT !.status = code, !.error = TRUE]

EvaluatorIdle ==
    [pc |-> "idle", body |-> [kind |-> "null", sessionId |-> Undefined,
                              userAnswer |-> Undefined],
     sessionId |-> Undefined, userAnswer |-> Undefined,
     problem_text |-> 0, correct_answer |-> 0, isCorrect |-> FALSE,
     detailedSolution |-> NoText, feedbackText |-> NoText,
     insertError |-> FALSE, calls |-> <<>>, response |-> NoResponse]

\* one external call of an invocation: whether it gave a result to the
\* handler, and whether it wrote a row to the store
Call(op, ok, wrote) == [op |-> op, ok |-> ok, wrote |-> wrote]

\* a request arrives; the handler has not run yet
SubmissionRequest(body) ==
    /\ evaluator.pc \in {"idle", "done"}
    /\ evaluator' = [EvaluatorIdle EXCEPT !.pc = "start", !.body = body]
    /\ UNCHANGED <<math_problem_sessions, problems, math_problem_submissions,
                   nextId, generator>>

\* the validation without its typeof test
InvalidSessionOnly(sessionId, userAnswer) == Falsy(sessionId)

\* typeof userAnswer !== "number" || !sessionId
InvalidSubmission(sessionId, userAnswer) ==
    Falsy(sessionId) \/ userAnswer.t # "number"

\* await req.json(), the destructuring and the validation
SubmissionValidate ==
    /\ evaluator.pc = "start"
    /\ LET body == evaluator.body IN
       IF body.kind \in {"invalid", "null"}
       THEN \* req.json() rejects, or null is destructured: the catch block
            evaluator' = [evaluator EXCEPT !.pc = "done",
                                           !.response = ErrorResponse(500)]
       ELSE IF InvalidSubmission(body.sessionId, body.userAnswer)
       THEN evaluator' = [evaluator EXCEPT !.pc = "done",
                                           !.sessionId = body.sessionId,
                                           !.userAnswer = body.userAnswer,
                                           !.response = ErrorResponse(400)]
       ELSE evaluator' = [evaluator EXCEPT !.pc = "fetch",
                                           !.sessionId = body.sessionId,
                                           !.userAnswer = body.userAnswer]
    /\ UNCHANGED <<math_problem_sessions, problems, math_problem_submissions,
                   nextId, generator, client>>

\* the comparison with <= in place of <
IsCorrectInclusive(userAnswer, correct_answer) ==
    Abs(userAnswer - correct_answer) <= Tolerance

\* Math.abs(userAnswer - correct_answer) < 0.0001
IsCorrect(userAnswer, correct_answer) ==
    Abs(userAnswer - correct_answer) < Tolerance

\* the session lookup and the grading; the read may also fail in the store
SubmissionFetch(dbFails) ==
    /\ evaluator.pc = "fetch"
    /\ LET problemSession ==
               IF dbFails THEN NoRow
               ELSE SelectSingle(math_problem_sessions, evaluator.sessionId)
           fetched == Call("select session", problemSession # NoRow, FALSE)
           correct == IsCorrect(evaluator.userAnswer.v,
                                problemSession.correct_answer)
       IN IF problemSession = NoRow
          THEN evaluator' = [evaluator EXCEPT
                   !.pc = "done",
                   !.calls = Append(@, fetched),
                   !.response = ErrorResponse(404)]
          ELSE evaluator' = [evaluator EXCEPT
                   !.pc = IF correct THEN "feedback" ELSE "solution",
                   !.calls = Append(@, fetched),
                   !.problem_text = problemSession.problem_text,
                   !.correct_answer = problemSession.correct_answer,
                   !.isCorrect = correct]
    /\ UNCHANGED <<math_problem_sessions, problems, math_problem_submissions,
                   nextId, generator, client>>

\* generateDetailedSolution with a catch block that returns no text
generateDetailedSolutionSilent(outcome) ==
    IF outcome.kind = "text" THEN Trim(outcome.text) ELSE NoText

\* generateDetailedSolution: the trimmed text, or the literal on any failure
\* (a response without text makes response.text.trim() throw inside the try)
generateDetailedSolution(outcome) ==
    IF outcome.kind = "text" THEN Trim(outcome.text) ELSE ErrorSteps

\* detailedSolution = await generateDetailedSolution(...), when incorrect
SubmissionSolution(outcome) ==
    /\ evaluator.pc = "solution"
    /\ evaluator' = [evaluator EXCEPT
           !.pc = "feedback",
           !.calls = Append(@, Call("generate solution", outcome.kind = "text", FALSE)),
           !.detailedSolution = generateDetailedSolution(outcome)]
    /\ UNCHANGED <<math_problem_sessions, problems, math_problem_submissions,
                   nextId, generator, client>>

\* a feedback step whose failures are swallowed
FeedbackNeverFails(outcome) == FALSE

\* feedbackResponse.text.trim() is not reached, or throws: the call threw,
\* or its response carries no text
FeedbackFails(outcome) == outcome.kind # "text"

\* the feedback call; a failure reaches the catch block
SubmissionFeedback(outcome) ==
    /\ evaluator.pc = "feedback"
    /\ IF ~FeedbackFails(outcome)
       THEN evaluator' = [evaluator EXCEPT
                !.pc = "insert",
                !.calls = Append(@, Call("generate feedback", outcome.kind = "text", FALSE)),
                !.feedbackText = Trim(outcome.text)]
       ELSE evaluator' = [evaluator EXCEPT
                !.pc = "done",
                !.calls = Append(@, Call("generate feedback", outcome.kind = "text", FALSE)),
                !.response = ErrorResponse(500)]
    /\ UNCHANGED <<math_problem_sessions, problems, math_problem_submissions,
                   nextId, generator, client>>

submissionData(e) ==
    [session_id |-> e.sessionId.v, user_answer |-> e.userAnswer.v,
     is_correct |-> e.isCorrect, feedback_text |-> e.feedbackText,
     detailed_solution |-> e.detailedSolution]

\* the response of a graded submission
SubmissionResult(e) ==
    [status |-> 200, error |-> FALSE, isCorrect |-> e.isCorrect,
     feedback |-> e.feedbackText, correctAnswer |-> e.correct_answer,
     detailedSolution |-> e.detailedSolution]

\* an insert whose error fails the request
InsertResponseFatal(e, insertError) ==
    IF insertError THEN ErrorResponse(500) ELSE SubmissionResult(e)

\* what the handler answers after the insert: insertError is logged only
InsertResponse(e, insertError) == SubmissionResult(e)

\* an insert that is tried again when it fails
SubmissionInsertRetry(insertError) ==
    /\ evaluator.pc = "insert"
    /\ insertError \/ Len(math_problem_submissions) < MaxSubmissions
    /\ math_problem_submissions' =
           IF insertError THEN math_problem_submissions
           ELSE Append(math_problem_submissions, submissionData(evaluator))
    /\ evaluator' = [evaluator EXCEPT
           !.pc = IF insertError THEN "insert" ELSE "done",
           !.insertError = insertError,
           !.calls = Append(@, Call("insert submission", ~insertError,
                                    ~insertError)),
           !.response = IF insertError THEN @
                        ELSE InsertResponse(evaluator, insertError)]
    /\ UNCHANGED <<math_problem_sessions, problems, nextId, generator, client>>

\* the insert of the Submission row, then the response
SubmissionInsert(insertError) ==
    /\ evaluator.pc = "insert"
    /\ insertError \/ Len(math_problem_submissions) < MaxSubmissions
    /\ math_problem_submissions' =
           IF insertError THEN math_problem_submissions
           ELSE Append(math_problem_submissions, submissionData(evaluator))
    /\ evaluator' = [evaluator EXCEPT
           !.pc = "done",
           !.insertError = insertError,
           !.calls = Append(@, Call("insert submission", ~insertError,
                                    ~insertError)),
           !.response = InsertResponse(evaluator, insertError)]
    /\ UNCHANGED <<math_problem_sessions, problems, nextId, generator, client>>

\* ---- Problem Generator: POST /api/math-problem --------------------------
\* two versions of the route exist: "difficulty" (difficulty-conditioned
\* prompt, table math_problem_sessions, answer field correct_answer) and
\* "basic" (fixed prompt, table problems, answer field final_answer)
Routes == {"difficulty", "basic"}

DifficultyValues == {NoDifficulty, "Easy", "Medium", "Hard", "Expert"}

ProblemBodies ==
    { [kind |-> k, difficulty |-> NoDifficulty] : k \in {"invalid", "null"} }
    \cup { [kind |-> "object", difficulty |-> d] : d \in DifficultyValues }

\* String.prototype.toLowerCase on the difficulty names
ToLowerCase(s) ==
    CASE s = "Easy" -> "easy"
      [] s = "Medium" -> "medium"
      [] s = "Hard" -> "hard"
      [] s = "Expert" -> "expert"
      [] OTHER -> s

\* createSystemInstruction without toLowerCase
createSystemInstructionCaseSensitive(difficulty) ==
    CASE difficulty = "easy" -> "single-step, small whole numbers"
      [] difficulty = "hard" -> "multiple steps, unit conversion"
      [] OTHER -> "2-3 steps"

\* the complexity hint createSystemInstruction puts in the prompt
createSystemInstruction(difficulty) ==
    CASE ToLowerCase(difficulty) = "easy" -> "single-step, small whole numbers"
      [] ToLowerCase(difficulty) = "hard" -> "multiple steps, unit conversion"
      [] OTHER -> "2-3 steps"

\* the fixed instruction of the "basic" route
BasicInstruction == "numerical calculations, solvable"

\* difficulty || "Medium"
DefaultDifficulty(difficulty) ==
    IF difficulty \in {NoDifficulty, ""} THEN "Medium" ELSE difficulty

\* what the service's text holds: text that is not JSON (json = FALSE), or
\* a JSON object with a problem text (a string, or absent) and an answer
\* under the schema's answer field (a number, a numeric string, or absent)
ProblemTextValues == {Undefined, Str(1)}
AnswerValues == {Undefined, Num(0), Num(Tolerance), Str(Tolerance)}

NotJson == [json |-> FALSE, problem_text |-> Undefined, answer |-> Undefined]
Documents ==
    {NotJson} \cup { [json |-> TRUE, problem_text |-> p, answer |-> a] :
                       p \in ProblemTextValues, a \in AnswerValues }

\* mathProblemSchema: both fields required, a STRING and a NUMBER
ConformsToSchema(doc) ==
    doc.json /\ doc.problem_text.t = "string" /\ doc.answer.t = "number"

GenerationOutcomes ==
    { [kind |-> k, doc |-> NotJson] : k \in {"throw", "notext"} }
    \cup { [kind |-> "text", doc |-> d] : d \in Documents }

NoProblem == [status |-> 0, error |-> FALSE, problem_text |-> 0,
              final_answer |-> 0, sessionId |-> 0, difficulty |-> NoDifficulty]

ProblemError(code) == [NoProblem EXCEPT !.status = code, !.error = TRUE]

GeneratorIdle ==
    [pc |-> "idle", route |-> "difficulty",
     body |-> [kind |-> "null", difficulty |-> NoDifficulty],
     currentDifficulty |-> NoDifficulty, systemInstruction |-> "",
     problemData |-> NotJson, calls |-> <<>>, response |-> NoProblem]

\* a request arrives at one of the two versions of the route
ProblemRequest(route, body) ==
    /\ generator.pc \in {"idle", "done"}
    /\ route = "basic" => body = GeneratorIdle.body
    /\ generator' = [GeneratorIdle EXCEPT !.pc = "start", !.route = route,
                                          !.body = body]
    /\ UNCHANGED <<math_problem_sessions, problems, math_problem_submissions,
                   nextId, evaluator>>

\* await req.json() and the choice of the instruction; the "basic" route
\* never reads the body
ProblemInstruction ==
    /\ generator.pc = "start"
    /\ LET body == generator.body IN
       IF generator.route = "basic"
       THEN generator' = [generator EXCEPT
                !.pc = "generate", !.systemInstruction = BasicInstruction]
       ELSE IF body.kind \in {"invalid", "null"}
       THEN generator' = [generator EXCEPT
                !.pc = "done", !.response = ProblemError(500)]
       ELSE generator' = [generator EXCEPT
                !.pc = "generate",
                !.currentDifficulty = DefaultDifficulty(body.difficulty),
                !.systemInstruction =
                    createSystemInstruction(DefaultDifficulty(body.difficulty))]
    /\ UNCHANGED <<math_problem_sessions, problems, math_problem_submissions,
                   nextId, evaluator, client>>

\* JSON.parse(response.text.trim()) succeeds
Parses(outcome) == outcome.kind = "text" /\ outcome.doc.json

\* the generation call and JSON.parse of its text; a throw, a response
\* without text or a SyntaxError reaches the catch block
ProblemGenerate(outcome) ==
    /\ generator.pc = "generate"
    /\ IF Parses(outcome)
       THEN generator' = [generator EXCEPT
                !.pc = "insert",
                !.calls = Append(@, Call("generate problem", Parses(outcome), FALSE)),
                !.problemData = outcome.doc]
       ELSE generator' = [generator EXCEPT
                !.pc = "done",
                !.calls = Append(@, Call("generate problem", Parses(outcome), FALSE)),
                !.problemData = outcome.doc,
                !.response = ProblemError(500)]
    /\ UNCHANGED <<math_problem_sessions, problems, math_problem_submissions,
                   nextId, evaluator, client>>

\* the store's columns: problem_text is text, the answer column is numeric,
\* both are required; a numeric string is cast to the number
Storable(doc) ==
    doc.problem_text.t = "string" /\ doc.answer.t \in {"number", "string"}

\* the row of insert([problemData]): the document's fields and the id the
\* store generates; the document carries no difficulty, the column stays NULL
NewRow(id, doc) ==
    [id |-> id, problem_text |-> doc.problem_text.v, correct_answer |-> doc.answer.v,
     difficulty |-> NoDifficulty]

\* the response of a stored problem: the row's fields and its id
ProblemResult(route, data, currentDifficulty) ==
    [status |-> 200, error |-> FALSE, problem_text |-> data.problem_text,
     final_answer |-> data.correct_answer, sessionId |-> data.id,
     difficulty |-> IF route = "basic" THEN NoDifficulty ELSE currentDifficulty]

\* a handler that ignores the insert's error
SessionResponseUnchecked(route, error, data, currentDifficulty) ==
    ProblemResult(route, data, currentDifficulty)

\* what the handler answers after the insert: the error, or the stored row
SessionResponse(route, error, data, currentDifficulty) ==
    IF error THEN ProblemError(500)
    ELSE ProblemResult(route, data, currentDifficulty)

\* insert([problemData]).select().single(): dbOutcome is "ok" (stored and
\* returned), "error" (not stored) or "lost" (stored, the reply is an error)
ProblemInsert(dbOutcome) ==
    /\ generator.pc = "insert"
    /\ LET stored == dbOutcome \in {"ok", "lost"}
           data == NewRow(nextId, generator.problemData)
       IN /\ stored => Storable(generator.problemData) /\ nextId <= MaxRows
          /\ IF stored /\ generator.route = "difficulty"
             THEN math_problem_sessions' = Append(math_problem_sessions, data)
             ELSE UNCHANGED math_problem_sessions
          /\ IF stored /\ generator.route = "basic"
             THEN problems' = Append(problems, data)
             ELSE UNCHANGED problems
          /\ nextId' = IF stored THEN nextId + 1 ELSE nextId
          /\ generator' = [generator EXCEPT
                 !.pc = "done",
                 !.calls = Append(@, Call("insert session", dbOutcome = "ok",
                                          stored)),
                 !.response =
                     SessionResponse(generator.route, dbOutcome # "ok", data,
                                     generator.currentDifficulty)]
    /\ UNCHANGED <<math_problem_submissions, evaluator, client>>

\* ---- Presentation Layer: the page (Home) ---------------------------------
MaxAnswers == 2      \* submissions the page sends in one browsing session

\* problem === null
NoProblemLoaded == [problem_text |-> 0, final_answer |-> 0, sessionId |-> 0,
                    difficulty |-> NoDifficulty]

\* the state of Home after the first render; the text of the input is empty
\* or the decimal text of a number. Besides the useState fields: the request
\* the page waits for (pending), whether it got to the server (reached), and
\* three counters: requests sent to the Evaluator, answers received for the
\* loaded problem, answers 200 with isCorrect true received
ClientIdle(difficulty) ==
    [problem |-> NoProblemLoaded, userAnswer |-> NoText, feedback |-> NoText,
     isLoading |-> FALSE, sessionId |-> 0, isCorrect |-> "null",
     difficulty |-> difficulty, score |-> 0,
     pending |-> "none", reached |-> FALSE,
     sent |-> 0, answered |-> 0, graded |-> 0]

GenerateErrorText == <<"Error: Could not generate a new problem.">>
SubmitErrorText == <<"Error: Failed to submit answer and receive feedback.">>

\* the difficulty buttons
ClientDifficulties == {"Easy", "Medium", "Hard"}

\* what the user types into the number input
ClientInputs == {NoText} \cup { <<n>> : n \in {0, Tolerance} }

NaN == [t |-> "number", v |-> -1]
JsonNull == [t |-> "object", v |-> 0]

\* parseFloat of the input's text
parseFloat(text) == IF text = NoText THEN NaN ELSE Num(text[1])

\* JSON.stringify of a number: NaN becomes null
Stringify(x) == IF x = NaN THEN JsonNull ELSE x

\* response.ok
ResponseOk(response) == response.status \in 200..299

\* setIsLoading(false) at the end of the try block only
LoadingAfterTry(failed) == failed

\* finally { setIsLoading(false) }, after the try block or the catch block
LoadingAfter(failed) == FALSE

\* a score that counts every answer received
NextScoreAny(prev, correct) == prev + 1

\* if (correct) setScore((prev) => prev + 1)
NextScore(prev, correct) == IF correct THEN prev + 1 ELSE prev

\* onClick of a difficulty button
SetDifficulty(level) ==
    /\ client' = [client EXCEPT !.difficulty = level]
    /\ UNCHANGED <<math_problem_sessions, problems, math_problem_submissions,
                   nextId, evaluator, generator>>

\* the form is rendered and its input is enabled
InputEnabled ==
    /\ client.problem # NoProblemLoaded
    /\ ~(client.feedback # NoText \/ client.isLoading)

\* onChange of the input
SetUserAnswer(text) ==
    /\ InputEnabled
    /\ client' = [client EXCEPT !.userAnswer = text]
    /\ UNCHANGED <<math_problem_sessions, problems, math_problem_submissions,
                   nextId, evaluator, generator>>

\* the generate button and the next-problem button: disabled={isLoading}
GenerateEnabled == ~client.isLoading

\* generateProblem up to its fetch; the request gets to the route deployed
\* at /api/math-problem, or fetch rejects
GenerateProblem(route, reaches) ==
    /\ GenerateEnabled
    /\ client' = [client EXCEPT
           !.isLoading = TRUE, !.problem = NoProblemLoaded,
           !.userAnswer = NoText, !.feedback = NoText, !.isCorrect = "null",
           !.pending = "generate", !.reached = reaches, !.answered = 0]
    /\ IF reaches
       THEN ProblemRequest(route,
                IF route = "basic" THEN GeneratorIdle.body
                ELSE [kind |-> "object", difficulty |-> client.difficulty])
       ELSE UNCHANGED <<math_problem_sessions, problems,
                        math_problem_submissions, nextId, evaluator, generator>>

\* generateProblem after its fetch: the response, the catch block, finally
GenerateSettle ==
    /\ client.pending = "generate"
    /\ client.reached => generator.pc = "done"
    /\ LET data == generator.response IN
       IF client.reached /\ ResponseOk(data)
       THEN client' = [client EXCEPT
                !.problem = [problem_text |-> data.problem_text,
                             final_answer |-> data.final_answer,
                             sessionId |-> data.sessionId,
                             difficulty |-> data.difficulty],
                !.sessionId = data.sessionId,
                !.isLoading = LoadingAfter(FALSE), !.pending = "none"]
       ELSE client' = [client EXCEPT
                !.feedback = GenerateErrorText,
                !.isLoading = LoadingAfter(TRUE), !.pending = "none"]
    /\ generator' = GeneratorIdle   \* the invocation is over
    /\ UNCHANGED <<math_problem_sessions, problems, math_problem_submissions,
                   nextId, evaluator>>

\* the submit button: disabled={!userAnswer || isLoading || !!feedback},
\* inside the form that is rendered while a problem is loaded
SubmitEnabled ==
    /\ client.problem # NoProblemLoaded
    /\ ~(client.userAnswer = NoText \/ client.isLoading
         \/ client.feedback # NoText)

\* submitAnswer up to its fetch; it returns at once without a session id
SubmitAnswer(reaches) ==
    /\ SubmitEnabled
    /\ ~(client.sessionId = 0 \/ client.problem = NoProblemLoaded)
    /\ client.sent < MaxAnswers
    /\ client' = [client EXCEPT
           !.isLoading = TRUE, !.feedback = NoText,
           !.pending = "submit", !.reached = reaches, !.sent = @ + 1]
    /\ IF reaches
       THEN SubmissionRequest(
                [kind |-> "object", sessionId |-> Str(client.sessionId),
                 userAnswer |-> Stringify(parseFloat(client.userAnswer))])
       ELSE UNCHANGED <<math_problem_sessions, problems,
                        math_problem_submissions, nextId, evaluator, generator>>

\* submitAnswer after its fetch: the response, the catch block, finally
SubmitSettle ==
    /\ client.pending = "submit"
    /\ client.reached => evaluator.pc = "done"
    /\ LET data == evaluator.response
           received == client.reached /\ data.status = 200 /\ data.isCorrect
       IN
       IF client.reached /\ ResponseOk(data)
       THEN client' = [client EXCEPT
                !.score = NextScore(@, data.isCorrect),
                !.isCorrect = IF data.isCorrect THEN "true" ELSE "false",
                !.feedback = data.feedback,
                !.userAnswer = NoText,
                !.isLoading = LoadingAfter(FALSE), !.pending = "none",
                !.answered = @ + 1,
                !.graded = IF received THEN @ + 1 ELSE @]
       ELSE client' = [client EXCEPT
                !.feedback = SubmitErrorText,
                !.isCorrect = "false",
                !.isLoading = LoadingAfter(TRUE), !.pending = "none",
                !.answered = @ + 1,
                !.graded = IF received THEN @ + 1 ELSE @]
    /\ evaluator' = EvaluatorIdle   \* the invocation is over
    /\ UNCHANGED <<math_problem_sessions, problems, math_problem_submissions,
                   nextId, generator>>

\* ---- the system -----------------------------------------------------------
Init ==
    /\ math_problem_sessions = <<>>
    /\ problems = <<>>
    /\ math_problem_submissions = <<>>
    /\ nextId = 1
    /\ evaluator = EvaluatorIdle
    /\ generator = GeneratorIdle
    /\ client = ClientIdle("Medium")

Next ==
    \/ \E body \in SubmissionBodies :
           SubmissionRequest(body) /\ UNCHANGED client
    \/ SubmissionValidate
    \/ \E dbFails \in BOOLEAN : SubmissionFetch(dbFails)
    \/ \E outcome \in ContentOutcomes : SubmissionSolution(outcome)
    \/ \E outcome \in ContentOutcomes : SubmissionFeedback(outcome)
    \/ \E insertError \in BOOLEAN : SubmissionInsert(insertError)
    \/ \E route \in Routes, body \in ProblemBodies :
           ProblemRequest(route, body) /\ UNCHANGED client
    \/ ProblemInstruction
    \/ \E outcome \in GenerationOutcomes : ProblemGenerate(outcome)
    \/ \E dbOutcome \in {"ok", "error", "lost"} : ProblemInsert(dbOutcome)

Spec == Init /\ [][Next]_vars

\* ---- the Evaluator alone, over a store that already holds sessions --------
\* tables the Generator can have left behind: rows 1..n in the order of
\* their ids, the answers alternating between 0 and Tolerance
SeededAnswer(i) == IF i % 2 = 1 THEN Num(0) ELSE Num(Tolerance)

SessionTables ==
    { [i \in 1..n |-> NewRow(i, [json |-> TRUE, problem_text |-> Str(1),
                                 answer |-> SeededAnswer(i)])] :
      n \in 0..MaxRows }

InitEvaluator ==
    /\ math_problem_sessions \in SessionTables
    /\ problems = <<>>
    /\ math_problem_submissions = <<>>
    /\ nextId = Len(math_problem_sessions) + 1
    /\ evaluator = EvaluatorIdle
    /\ generator = GeneratorIdle
    /\ client = ClientIdle("Medium")

\* here the feedback, when there is one, is not blank
FeedbackOutcomes ==
    { o \in ContentOutcomes : o.kind = "text" => Trim(o.text) # NoText }

NextEvaluator ==
    \/ \E body \in SubmissionBodies :
           SubmissionRequest(body) /\ UNCHANGED client
    \/ SubmissionValidate
    \/ \E dbFails \in BOOLEAN : SubmissionFetch(dbFails)
    \/ \E outcome \in ContentOutcomes : SubmissionSolution(outcome)
    \/ \E outcome \in FeedbackOutcomes : SubmissionFeedback(outcome)
    \/ \E insertError \in BOOLEAN : SubmissionInsert(insertError)

SpecEvaluator == InitEvaluator /\ [][NextEvaluator]_vars

\* ---- the Generator alone ---------------------------------------------------
NextGenerator ==
    \/ \E route \in Routes, body \in ProblemBodies :
           ProblemRequest(route, body) /\ UNCHANGED client
    \/ ProblemInstruction
    \/ \E outcome \in GenerationOutcomes : ProblemGenerate(outcome)
    \/ \E dbOutcome \in {"ok", "error", "lost"} : ProblemInsert(dbOutcome)

SpecGenerator == Init /\ [][NextGenerator]_vars

\* ---- both routes together, their steps interleaved ------------------------
\* well-formed requests only: a session id that may or may not exist and the
\* answer 0, which is at or off the stored one
SystemSubmissions ==
    { [kind |-> "object", sessionId |-> Str(i), userAnswer |-> Num(0)] :
        i \in 1..(MaxRows + 1) }

SystemProblems == { [kind |-> "object", difficulty |-> "Easy"] }

\* the generation fails, or gives a document the store accepts
SystemGenerations ==
    { o \in GenerationOutcomes :
        o.kind = "throw" \/ (o.kind = "text" /\ ConformsToSchema(o.doc)) }

SystemContents == { o \in FeedbackOutcomes : o.kind # "notext" }

NextSystem ==
    \/ \E body \in SystemSubmissions :
           SubmissionRequest(body) /\ UNCHANGED client
    \/ SubmissionValidate
    \/ \E dbFails \in BOOLEAN : SubmissionFetch(dbFails)
    \/ \E outcome \in SystemContents : SubmissionSolution(outcome)
    \/ \E outcome \in SystemContents : SubmissionFeedback(outcome)
    \/ \E insertError \in BOOLEAN : SubmissionInsert(insertError)
    \/ \E route \in Routes, body \in SystemProblems \cup {GeneratorIdle.body} :
           ProblemRequest(route, body) /\ UNCHANGED client
    \/ ProblemInstruction
    \/ \E outcome \in SystemGenerations : ProblemGenerate(outcome)
    \/ \E dbOutcome \in {"ok", "error", "lost"} : ProblemInsert(dbOutcome)

SpecSystem == Init /\ [][NextSystem]_vars

\* ---- the page and the two routes -------------------------------------------
\* the page of page.tsx starts with Medium, the other version with Easy
InitClient ==
    /\ math_problem_sessions = <<>>
    /\ problems = <<>>
    /\ math_problem_submissions = <<>>
    /\ nextId = 1
    /\ evaluator = EvaluatorIdle
    /\ generator = GeneratorIdle
    /\ client \in {ClientIdle("Medium"), ClientIdle("Easy")}

\* the feedback call fails, or gives a text, which may be blank
ClientFeedbacks == { o \in ContentOutcomes : o.kind # "notext" }

\* the generation fails, or gives the problem whose answer is Tolerance
ClientGenerations ==
    { o \in SystemGenerations : o.kind = "text" => o.doc.answer = Num(Tolerance) }

NextClient ==
    \/ \E level \in ClientDifficulties : SetDifficulty(level)
    \/ \E text \in ClientInputs : SetUserAnswer(text)
    \/ \E route \in Routes, reaches \in BOOLEAN : GenerateProblem(route, reaches)
    \/ GenerateSettle
    \/ \E reaches \in BOOLEAN : SubmitAnswer(reaches)
    \/ SubmitSettle
    \/ ProblemInstruction
    \/ \E outcome \in ClientGenerations : ProblemGenerate(outcome)
    \/ \E dbOutcome \in {"ok", "error", "lost"} : ProblemInsert(dbOutcome)
    \/ SubmissionValidate
    \/ \E dbFails \in BOOLEAN : SubmissionFetch(dbFails)
    \/ \E outcome \in SystemContents : SubmissionSolution(outcome)
    \/ \E outcome \in ClientFeedbacks : SubmissionFeedback(outcome)
    \/ \E insertError \in BOOLEAN : SubmissionInsert(insertError)

SpecClient == InitClient /\ [][NextClient]_vars

\* the page's requests are eventually settled once they can be: the
\* continuation after await fetch(...) runs when the response is there
SpecClientFair ==
    SpecClient /\ WF_vars(GenerateSettle) /\ WF_vars(SubmitSettle)

\* ---- the page and the two routes over a store whose reads succeed ---------
NextRoundTrip ==
    \/ \E level \in ClientDifficulties : SetDifficulty(level)
    \/ \E text \in ClientInputs : SetUserAnswer(text)
    \/ \E route \in Routes, reaches \in BOOLEAN : GenerateProblem(route, reaches)
    \/ GenerateSettle
    \/ \E reaches \in BOOLEAN : SubmitAnswer(reaches)
    \/ SubmitSettle
    \/ ProblemInstruction
    \/ \E outcome \in ClientGenerations : ProblemGenerate(outcome)
    \/ \E dbOutcome \in {"ok", "error", "lost"} : ProblemInsert(dbOutcome)
    \/ SubmissionValidate
    \/ SubmissionFetch(FALSE)
    \/ \E outcome \in SystemContents : SubmissionSolution(outcome)
    \/ \E outcome \in ClientFeedbacks : SubmissionFeedback(outcome)
    \/ \E insertError \in BOOLEAN : SubmissionInsert(insertError)

SpecRoundTrip == InitClient /\ [][NextRoundTrip]_vars

\* ---- properties of the Evaluator (checked under SpecEvaluator) -----------
\* the stored session a request names, as a set of rows (empty or one row)
NamedSessions ==
    { math_problem_sessions[i] : i \in
        { j \in 1..Len(math_problem_sessions) :
            /\ evaluator.body.sessionId.t = "string"
            /\ math_problem_sessions[j].id = evaluator.body.sessionId.v } }

Answered(code) == evaluator.pc = "done" /\ evaluator.response.status = code

Called(invocation, op, ok) ==
    \E i \in 1..Len(invocation.calls) :
        invocation.calls[i].op = op /\ invocation.calls[i].ok = ok

\* C1: a 200 response says isCorrect exactly when the submitted answer a and
\* the stored answer c of the named session differ by less than the
\* tolerance in either direction; a difference equal to the tolerance is
\* graded incorrect
C1_ToleranceVerdict ==
    Answered(200) =>
        \A row \in NamedSessions :
            LET a == evaluator.body.userAnswer.v
                c == row.correct_answer
            IN evaluator.response.isCorrect
                   <=> (a - c < Tolerance /\ c - a < Tolerance)

C1_Witness ==
    /\ Answered(200)
    /\ \E row \in NamedSessions :
           evaluator.body.userAnswer.v - row.correct_answer = Tolerance
    /\ ~evaluator.response.isCorrect

\* C2: an invocation whose userAnswer is not a number makes no external call
\* at all, and when its body is JSON carrying such a userAnswer the response
\* is the 400 error
C2_NonNumericRejected ==
    (evaluator.pc # "idle" /\ evaluator.body.userAnswer.t # "number") =>
        /\ evaluator.calls = <<>>
        /\ evaluator.pc \in {"start", "done"}
        /\ (evaluator.pc = "done" /\ evaluator.body.kind \in {"object", "scalar"})
               => (evaluator.response.status = 400 /\ evaluator.response.error)

C2_Witness ==
    /\ Answered(400)
    /\ evaluator.body.kind = "object"
    /\ evaluator.body.userAnswer = Str(1)
    /\ NamedSessions # {}

\* C3: every malformed request (a body that is not JSON, a body without the
\* fields, a missing or empty sessionId, a missing or non-numeric userAnswer)
\* is answered 400
Malformed(body) ==
    \/ body.kind # "object"
    \/ body.sessionId.t # "string"
    \/ body.sessionId = Str(0)
    \/ body.userAnswer.t # "number"

C3_MalformedIs400 ==
    (evaluator.pc = "done" /\ Malformed(evaluator.body))
        => evaluator.response.status = 400

\* C4: a well-formed request naming no stored session is answered 404, and
\* the only external call of the invocation is the session lookup: no
\* generation call, no Submission insert
UnknownSessionRequest ==
    /\ evaluator.pc # "idle"
    /\ ~Malformed(evaluator.body)
    /\ NamedSessions = {}

C4_UnknownSessionIs404 ==
    UnknownSessionRequest =>
        /\ evaluator.pc \in {"start", "fetch", "done"}
        /\ evaluator.pc = "done"
               => (evaluator.response.status = 404 /\ evaluator.response.error)
        /\ \A i \in 1..Len(evaluator.calls) :
               evaluator.calls[i].op = "select session" /\ ~evaluator.calls[i].wrote

C4_Witness ==
    /\ UnknownSessionRequest
    /\ Answered(404)
    /\ math_problem_sessions # <<>>
    /\ ~Called(evaluator, "select session", TRUE)
    /\ Called(evaluator, "select session", FALSE)

\* the Submission row the current invocation wrote, as a set (empty when it
\* wrote none): the last row of the table
WrittenRows ==
    IF \E i \in 1..Len(evaluator.calls) : evaluator.calls[i].wrote
    THEN { math_problem_submissions[Len(math_problem_submissions)] }
    ELSE {}

\* C5: in a 200 response and in the row written with it, detailedSolution is
\* empty when isCorrect is true and not empty when isCorrect is false
C5_SolutionIffIncorrect ==
    Answered(200) =>
        /\ evaluator.response.isCorrect
               <=> (evaluator.response.detailedSolution = NoText)
        /\ \A row \in WrittenRows :
               row.is_correct <=> (row.detailed_solution = NoText)

\* C6: when the solution call fails, the invocation goes on to the feedback
\* call with the literal in detailedSolution, and when the feedback call
\* succeeds the response is 200, isCorrect false, detailedSolution the literal
C6_SolutionFailureDegrades ==
    Called(evaluator, "generate solution", FALSE) =>
        /\ evaluator.pc \in {"feedback", "insert", "done"}
        /\ evaluator.detailedSolution = <<"Error generating steps.">>
        /\ evaluator.pc = "done"
               => \E i \in 1..Len(evaluator.calls) :
                      evaluator.calls[i].op = "generate feedback"
        /\ (evaluator.pc = "done" /\ Called(evaluator, "generate feedback", TRUE))
               => /\ evaluator.response.status = 200
                  /\ ~evaluator.response.isCorrect
                  /\ evaluator.response.detailedSolution
                         = <<"Error generating steps.">>

C6_Witness ==
    /\ Answered(200)
    /\ Called(evaluator, "generate solution", FALSE)
    /\ Called(evaluator, "generate feedback", TRUE)

\* C7: when the feedback call fails the invocation ends with the 500 error
\* response and has written no Submission row
C7_FeedbackFailureIs500 ==
    Called(evaluator, "generate feedback", FALSE) =>
        /\ evaluator.pc = "done"
        /\ evaluator.response.status = 500
        /\ evaluator.response.error
        /\ \A i \in 1..Len(evaluator.calls) :
               evaluator.calls[i].op # "insert submission" /\ ~evaluator.calls[i].wrote

C7_Witness ==
    /\ Answered(500)
    /\ Called(evaluator, "generate feedback", FALSE)
    /\ evaluator.isCorrect
    /\ math_problem_submissions = <<>>

\* C8: when the insert of the Submission row fails, the response is still
\* 200 and carries the verdict, the feedback, the stored answer and the
\* solution of the invocation
C8_InsertFailureIgnored ==
    Called(evaluator, "insert submission", FALSE) =>
        /\ evaluator.pc = "done"
        /\ evaluator.response.status = 200
        /\ ~evaluator.response.error
        /\ evaluator.response.isCorrect = evaluator.isCorrect
        /\ evaluator.response.feedback = evaluator.feedbackText
        /\ evaluator.response.detailedSolution = evaluator.detailedSolution
        /\ \A row \in NamedSessions :
               evaluator.response.correctAnswer = row.correct_answer

C8_Witness ==
    /\ Answered(200)
    /\ Called(evaluator, "insert submission", FALSE)
    /\ ~evaluator.response.isCorrect
    /\ evaluator.response.feedback # NoText
    /\ NamedSessions # {}

\* ---- properties of the Generator (checked under SpecGenerator) -----------
\* the rows of the table the route of the current invocation writes to
RouteTable ==
    IF generator.route = "basic" THEN problems ELSE math_problem_sessions

Generated == \E i \in 1..Len(generator.calls) :
                 generator.calls[i].op = "generate problem"

\* C9: when the service fails, or answers with content that does not conform
\* to the schema, the invocation ends with the 500 error response and
\* creates no ProblemSession row
C9_NonConformingIs500 ==
    (Generated /\ ~ConformsToSchema(generator.problemData)) =>
        /\ generator.pc = "done"
               => (generator.response.status = 500 /\ generator.response.error)
        /\ \A i \in 1..Len(generator.calls) : ~generator.calls[i].wrote

\* C10: when the insert of the session fails the response is the 500 error
\* and carries no session id, problem text or answer; a 200 response carries
\* the id, text and answer of a row of the route's table
C10_PersistFailureIs500 ==
    /\ Called(generator, "insert session", FALSE) =>
           /\ generator.pc = "done"
           /\ generator.response.status = 500
           /\ generator.response.error
           /\ generator.response.sessionId = 0
           /\ generator.response.problem_text = 0
    /\ (generator.pc = "done" /\ generator.response.status = 200) =>
           \E i \in 1..Len(RouteTable) :
               /\ RouteTable[i].id = generator.response.sessionId
               /\ RouteTable[i].problem_text = generator.response.problem_text
               /\ RouteTable[i].correct_answer = generator.response.final_answer

C10_Witness ==
    /\ generator.pc = "done"
    /\ Called(generator, "insert session", FALSE)
    /\ ConformsToSchema(generator.problemData)
    /\ generator.response.status = 500

\* C11: after a 200 response of the Generator the stored row of the session
\* holds the parsed problem text, the parsed answer and the difficulty of the
\* request, one of Easy, Medium, Hard
RequestedDifficulty ==
    IF generator.body.difficulty = NoDifficulty THEN "Medium"
    ELSE generator.body.difficulty

C11_RowHoldsDifficulty ==
    (generator.pc = "done" /\ generator.response.status = 200) =>
        \E i \in 1..Len(RouteTable) :
            /\ RouteTable[i].id = generator.response.sessionId
            /\ RouteTable[i].problem_text = generator.problemData.problem_text.v
            /\ RouteTable[i].correct_answer = generator.problemData.answer.v
            /\ RouteTable[i].difficulty = RequestedDifficulty
            /\ RouteTable[i].difficulty \in {"Easy", "Medium", "Hard"}

\* C12: the difficulty-conditioned route puts the single-step profile in the
\* prompt for Easy, the multi-step unit-conversion profile for Hard and the
\* 2-3 step profile for Medium and for a request without difficulty, whose
\* 200 response reports Medium; the three profiles differ
InstructionChosen ==
    /\ generator.route = "difficulty"
    /\ generator.body.kind = "object"
    /\ generator.pc \in {"generate", "insert", "done"}

C12_DifficultyProfiles ==
    InstructionChosen =>
        LET d == generator.body.difficulty
            hint == generator.systemInstruction
        IN /\ d = "Easy" => hint = "single-step, small whole numbers"
           /\ d = "Hard" => hint = "multiple steps, unit conversion"
           /\ d \in {"Medium", NoDifficulty} => hint = "2-3 steps"
           /\ (d = NoDifficulty /\ generator.response.status = 200)
                  => generator.response.difficulty = "Medium"
           /\ d \in {"Easy", "Hard"} => hint # "2-3 steps"

C12_Witness ==
    /\ InstructionChosen
    /\ generator.body.difficulty = NoDifficulty
    /\ generator.pc = "done"
    /\ generator.response.status = 200
    /\ generator.response.difficulty = "Medium"
    /\ generator.systemInstruction = "2-3 steps"

\* C15: the external calls of an Evaluator invocation happen in the order
\* session lookup, solution call, feedback call, Submission insert, each at
\* most once; the solution call is made exactly for a graded answer outside
\* the tolerance and has finished before the feedback call; the feedback
\* call is made for every graded answer; the insert follows it, and the
\* response comes last
Rank(op) ==
    CASE op = "select session" -> 1
      [] op = "generate solution" -> 2
      [] op = "generate feedback" -> 3
      [] op = "insert submission" -> 4

Made(op) == \E i \in 1..Len(evaluator.calls) : evaluator.calls[i].op = op

OutsideTolerance ==
    \E row \in NamedSessions :
        LET d == evaluator.body.userAnswer.v - row.correct_answer
        IN d >= Tolerance \/ -d >= Tolerance

C15_EffectOrder ==
    /\ \A i, j \in 1..Len(evaluator.calls) :
           i < j => Rank(evaluator.calls[i].op) < Rank(evaluator.calls[j].op)
    /\ Made("generate solution")
           => (Called(evaluator, "select session", TRUE) /\ OutsideTolerance)
    /\ Made("generate feedback")
           => /\ Called(evaluator, "select session", TRUE)
              /\ OutsideTolerance <=> Made("generate solution")
    /\ Made("insert submission") => Called(evaluator, "generate feedback", TRUE)
    /\ (evaluator.pc = "done" /\ Called(evaluator, "select session", TRUE))
           => Made("generate feedback")
    /\ Answered(200) => Made("insert submission")
    /\ evaluator.response.status # 0 => evaluator.pc = "done"

C15_Witness ==
    /\ Answered(200)
    /\ Len(evaluator.calls) = 4
    /\ Called(evaluator, "insert submission", TRUE)

\* ---- properties of the two routes together (checked under SpecSystem) ----
SessionIds ==
    { math_problem_sessions[i].id : i \in 1..Len(math_problem_sessions) }

SubmissionsReferToSessions ==
    \A i \in 1..Len(math_problem_submissions) :
        math_problem_submissions[i].session_id \in SessionIds

\* a step leaves every stored ProblemSession row where and as it was
SessionsKept ==
    /\ Len(math_problem_sessions') >= Len(math_problem_sessions)
    /\ \A i \in 1..Len(math_problem_sessions) :
           math_problem_sessions'[i] = math_problem_sessions[i]

\* C13: in every reachable state every stored Submission row has a
\* session_id that is the id of a stored ProblemSession row, and no step
\* modifies or deletes a ProblemSession row
C13_SubmissionsReferenceSessions ==
    [](SubmissionsReferToSessions) /\ [][SessionsKept]_vars

C13_Witness ==
    /\ Len(math_problem_submissions) >= 1
    /\ Len(math_problem_sessions) >= 2
    /\ Len(problems) = 0
    /\ math_problem_submissions[1].session_id = 2
    /\ generator.pc = "done"

\* ---- properties of the page (checked under SpecClient, SpecRoundTrip) ----
\* the Evaluator has answered the request {sessionId: S, userAnswer: A} made
\* of the loaded problem's session id and final_answer
RoundTripAnswered ==
    /\ client.pending = "submit" /\ client.reached
    /\ client.problem # NoProblemLoaded
    /\ evaluator.pc = "done"
    /\ evaluator.body.sessionId = Str(client.problem.sessionId)
    /\ evaluator.body.userAnswer = Num(client.problem.final_answer)

\* C14: a request to the Evaluator with the session id S and the
\* final_answer A of a 200 response of the Generator, with the feedback call
\* succeeding, is answered 200 with isCorrect true, an empty detailedSolution
\* and correctAnswer A
C14_RoundTrip ==
    (RoundTripAnswered /\ ~Called(evaluator, "generate feedback", FALSE))
        => /\ evaluator.response.status = 200
           /\ evaluator.response.isCorrect
           /\ evaluator.response.detailedSolution = NoText
           /\ evaluator.response.correctAnswer = client.problem.final_answer

\* a step changes the score only by adding one, when the page receives an
\* answer 200 with isCorrect true to a submission
ScoreStep ==
    /\ client'.score >= client.score
    /\ client'.score # client.score
           => /\ client'.score = client.score + 1
              /\ client.pending = "submit" /\ client.reached
              /\ evaluator.pc = "done"
              /\ evaluator.response.status = 200
              /\ evaluator.response.isCorrect

\* C16: the score is the number of submissions of the browsing session the
\* Evaluator answered 200 with isCorrect true; it never decreases and no
\* other step changes it (generating, changing the difficulty, a failed or
\* an incorrect submission)
C16_ScoreCountsCorrect ==
    [](client.score = client.graded) /\ [][ScoreStep]_vars

C16_Witness ==
    /\ client.score = 1
    /\ client.sent = 2
    /\ client.answered = 1
    /\ client.isCorrect = "false"
    /\ client.pending = "none"
    /\ client.difficulty = "Hard"

\* C17: a submission is in flight only for the loaded problem and with its
\* session id, and once an answer to a submission of the loaded problem has
\* been received no further one can be made: a loaded problem is submitted
\* at most once
C17_SubmittedOnce ==
    /\ client.pending = "submit"
           => /\ client.problem # NoProblemLoaded
              /\ client.sessionId = client.problem.sessionId
    /\ client.answered >= 1 => ~SubmitEnabled
    /\ client.answered <= 1

\* the request the page waits for has been answered (or fetch has rejected)
ServerAnswered ==
    \/ client.pending = "generate" /\ (client.reached => generator.pc = "done")
    \/ client.pending = "submit" /\ (client.reached => evaluator.pc = "done")

InFlight ==
    (IF generator.pc # "idle" THEN 1 ELSE 0)
    + (IF evaluator.pc # "idle" THEN 1 ELSE 0)

OneRequest ==
    /\ InFlight <= 1
    /\ InFlight = 1 => client.isLoading
    /\ client.isLoading <=> client.pending # "none"
    /\ client.isLoading => ~GenerateEnabled /\ ~SubmitEnabled

\* C18: at most one request of the page is in flight; while one is pending
\* neither a generate nor a submit can be started; and once the request has
\* been answered (200, an HTTP error, or a rejected fetch) isLoading
\* eventually returns to false
C18_OneRequestThenIdle ==
    []OneRequest /\ ((client.isLoading /\ ServerAnswered) ~> ~client.isLoading)

C18_Witness ==
    /\ client.pending = "none"
    /\ ~client.isLoading
    /\ client.feedback = SubmitErrorText
    /\ client.answered = 1

====
